---- MODULE Spec2Model ----
(***************************************************************************)
(* Model of WordCount.cpp: the tokenizer getWordDataFromCode (both         *)
(* delimiter policies), the aggregation wordStats / WordStats, the ranking *)
(* in getWordCount and the empty check of print.                           *)
(*                                                                         *)
(* A std::string is a sequence of one-character strings, an iterator into  *)
(* it is a 1-based position and end(code) is Len(code) + 1.                *)
(***************************************************************************)
EXTENDS Integers, Sequences, FiniteSets, TLC

\* ---------------------------------------------------------------- bounds
MaxLen == 4      \* longest text given to the tokenizer
MaxOcc == 3      \* longest occurrence sequence given directly to wordStats
MaxLine == 2     \* largest line number in such a sequence

\* ------------------------------------------------------------ characters
\* One representative of each class of the "C" locale that the code tells
\* apart: lower-case letter, upper-case letter, digit, underscore, a
\* delimiter that is not a newline, and the newline.
Alphabet == {"a", "B", "1", "_", " ", "\n"}

\* The character's code (ASCII), as compared by std::string::operator<.
Ord(c) ==
    CASE c = "\n" -> 10
      [] c = " "  -> 32
      [] c = "1"  -> 49
      [] c = "B"  -> 66
      [] c = "_"  -> 95
      [] c = "a"  -> 97

isupper_isalpha(c) == Ord(c) \in (65..90) \cup (97..122)

isupper(c) == Ord(c) \in 65..90

isalnum(c) == Ord(c) \in (48..57) \cup (65..90) \cup (97..122)

isDelimiter_noUnderscore(c) == ~isalnum(c)

isDelimiter(c) ==
    LET isAllowedInName == isalnum(c) \/ c = "_"
    IN  ~isAllowedInName

\* The two end-of-word predicates handed to the tokenizer.
isEndOfWord_noUpper(mode, c) == isDelimiter(c)

isEndOfWord(mode, c) ==
    IF mode = "EntireWords" THEN isDelimiter(c)
                            ELSE isDelimiter(c) \/ isupper(c)

\* ------------------------------------------------------- <algorithm> bits
Least(S, dflt) == IF S = {} THEN dflt ELSE CHOOSE i \in S : \A j \in S : i <= j

\* std::find_if(first, end(code), isEndOfWord)
find_if(code, first, mode) ==
    Least({i \in first..Len(code) : isEndOfWord(mode, code[i])}, Len(code) + 1)

\* std::find_if_not(first, end(code), isDelimiter)
find_if_not(code, first) ==
    Least({i \in first..Len(code) : ~isDelimiter(code[i])}, Len(code) + 1)

\* std::count(first, last, c) over [first, last)
count_fromBegin(code, first, last, c) ==
    Cardinality({i \in 1..(last - 1) : code[i] = c})

count(code, first, last, c) ==
    Cardinality({i \in first..(last - 1) : code[i] = c})

\* std::next(it)
next_same(it) == it

next(it) == it + 1

\* std::string operator< : lexicographic on character codes.
RECURSIVE StringLess(_, _)
StringLess(a, b) ==
    IF b = <<>> THEN FALSE
    ELSE IF a = <<>> THEN TRUE
    ELSE IF Ord(Head(a)) < Ord(Head(b)) THEN TRUE
    ELSE IF Ord(Head(b)) < Ord(Head(a)) THEN FALSE
    ELSE StringLess(Tail(a), Tail(b))

\* -------------------------------------------------------------- WordStats
NewWordStats ==
    [totalNumberOfLines_ |-> 0, nbOccurrences_ |-> 0,
     lowestOccurringLine_ |-> 0, highestOccurringLine_ |-> 0]

nbOccurrences(ws) == ws.nbOccurrences_

Min(a, b) == IF b < a THEN b ELSE a
Max(a, b) == IF a < b THEN b ELSE a

addOneOccurrence_noMin(ws, lineNumber) ==
    LET n == ws.nbOccurrences_ + 1
    IN  IF n = 1
        THEN [ws EXCEPT !.nbOccurrences_ = n,
                        !.lowestOccurringLine_ = lineNumber,
                        !.highestOccurringLine_ = lineNumber]
        ELSE [ws EXCEPT !.nbOccurrences_ = n,
                        !.lowestOccurringLine_ = lineNumber,
                        !.highestOccurringLine_ = Max(ws.highestOccurringLine_, lineNumber)]

addOneOccurrence(ws, lineNumber) ==
    LET n == ws.nbOccurrences_ + 1
    IN  IF n = 1
        THEN [ws EXCEPT !.nbOccurrences_ = n,
                        !.lowestOccurringLine_ = lineNumber,
                        !.highestOccurringLine_ = lineNumber]
        ELSE [ws EXCEPT !.nbOccurrences_ = n,
                        !.lowestOccurringLine_ = Min(ws.lowestOccurringLine_, lineNumber),
                        !.highestOccurringLine_ = Max(ws.highestOccurringLine_, lineNumber)]

\* The subtraction is done in size_t; it does not wrap as long as
\* lowestOccurringLine_ <= highestOccurringLine_.
span_noPlusOne(ws) ==
    IF ws.nbOccurrences_ = 0 THEN 0
    ELSE ws.highestOccurringLine_ - ws.lowestOccurringLine_

span(ws) ==
    IF ws.nbOccurrences_ = 0 THEN 0
    ELSE ws.highestOccurringLine_ - ws.lowestOccurringLine_ + 1

setTotalNumberOfLines(ws, totalNumberOfLines) ==
    [ws EXCEPT !.totalNumberOfLines_ = totalNumberOfLines]

\* operator<(WordStats, WordStats) and the operators Comparable derives.
WordStatsLess(ws1, ws2) == nbOccurrences(ws1) < nbOccurrences(ws2)
WordStatsLessEq(ws1, ws2) == ~WordStatsLess(ws2, ws1)
WordStatsGreater(ws1, ws2) == ~WordStatsLessEq(ws1, ws2)

\* ------------------------------------------------------------- free functions
numberOfLines(code) == count(code, 1, Len(code) + 1, "\n") + 1

\* std::map<std::string, WordStats>::operator[] : the entry, created
\* value-initialised when the key is absent.
MapAt_alwaysNew(m, key) == NewWordStats

MapAt(m, key) == IF key \in DOMAIN m THEN m[key] ELSE NewWordStats

MapPut(m, key, val) ==
    [k \in (DOMAIN m) \cup {key} |-> IF k = key THEN val ELSE m[k]]

EmptyMap == [k \in {} |-> NewWordStats]

\* WordCount(begin(wordCount), end(wordCount)) : the map's pairs in key order.
MinKey(S) == CHOOSE k \in S : \A j \in S : j = k \/ StringLess(k, j)

RECURSIVE MapToVector(_)
MapToVector(m) ==
    IF DOMAIN m = {} THEN <<>>
    ELSE LET k == MinKey(DOMAIN m)
         IN  <<[first |-> k, second |-> m[k]]>>
               \o MapToVector([x \in (DOMAIN m) \ {k} |-> m[x]])

\* The lambda given to std::sort.
SortComp(p1, p2) == WordStatsGreater(p1.second, p2.second)

\* What std::sort guarantees of its result: a permutation of the input in
\* which no element is ordered before an earlier one.  The relative order
\* of equivalent elements is unspecified.
SortResults(v) ==
    LET n == Len(v)
        perms == {p \in [1..n -> 1..n] : \A i, j \in 1..n : i # j => p[i] # p[j]}
        res == {[i \in 1..n |-> v[p[i]]] : p \in perms}
    IN  {r \in res : \A i, j \in 1..n : i < j => ~SortComp(r[j], r[i])}

\* Number of lines print writes: nothing for an empty result, else the
\* header, the rule and one row per entry.
print_noEmptyCheck(entries) == 2 + Len(entries)

print(entries) == IF entries = <<>> THEN 0 ELSE 2 + Len(entries)

\* ------------------------------------------------------------------ state
VARIABLES
    entry,            \* which function was called
    code,             \* the text
    pc,               \* position in the run
    words,            \* getWordDataFromCode: words   / wordStats: wordData
    endWord,          \* getWordDataFromCode: endWord
    beginWord,        \* getWordDataFromCode: beginWord
    line,             \* getWordDataFromCode: line
    nbLines,          \* wordStats: numberOfLines
    idx,              \* wordStats: position of the range-for
    wordCount,        \* wordStats: the map being built
    sortedWordCount,  \* getWordCount: sortedWordCount
    output            \* number of lines written by print

vars == <<entry, code, pc, words, endWord, beginWord, line, nbLines, idx,
          wordCount, sortedWordCount, output>>

RECURSIVE SeqsUpTo(_, _)
SeqsUpTo(S, n) ==
    IF n = 0 THEN {<<>>}
    ELSE LET shorter == SeqsUpTo(S, n - 1)
         IN  shorter \cup {Append(s, x) : s \in {t \in shorter : Len(t) = n - 1}, x \in S}

Texts == SeqsUpTo(Alphabet, MaxLen)

\* Occurrence sequences handed directly to wordStats.
ArgWords == {<<"a">>, <<"B">>}
WordDataArgs ==
    SeqsUpTo([word : ArgWords, lineNumber : 0..MaxLine], MaxOcc)

Mode == IF entry = "EntireWords" THEN "EntireWords" ELSE "WordsInCamelCase"

\* getWordCount(code) and getWordDataFromCode<EntireWords>(code) start in the
\* tokenizer, after its local variables are initialised.
InitTokenizer ==
    /\ entry \in {"getWordCount", "EntireWords"}
    /\ code \in Texts
    /\ pc = "scan"
    /\ words = <<>>
    /\ endWord = 1
    /\ beginWord = find_if_not(code, 1)
    /\ line = 0
    /\ nbLines = 0
    /\ idx = 1
    /\ wordCount = EmptyMap
    /\ sortedWordCount = <<>>
    /\ output = 0

\* wordStats(wordData, numberOfLines) called on its own.
InitWordStats ==
    /\ entry = "wordStats"
    /\ code = <<>>
    /\ pc = "aggregate"
    /\ words \in WordDataArgs
    /\ endWord = 1
    /\ beginWord = 1
    /\ line = 0
    /\ nbLines \in {0, MaxLine + 1}
    /\ idx = 1
    /\ wordCount = EmptyMap
    /\ sortedWordCount = <<>>
    /\ output = 0

Init == InitTokenizer \/ InitWordStats

\* One iteration of the while loop of getWordDataFromCode.  The bound on
\* Len(words) only keeps the state space finite; it never binds.
TokenizeIter ==
    /\ pc = "scan"
    /\ beginWord # Len(code) + 1
    /\ Len(words) <= MaxLen + 1
    /\ LET linesBetweenWords == count(code, endWord, beginWord, "\n")
           newLine == line + linesBetweenWords
           newEnd == find_if(code, next(beginWord), Mode)
       IN  /\ line' = newLine
           /\ endWord' = newEnd
           /\ words' = Append(words, [word |-> SubSeq(code, beginWord, newEnd - 1),
                                      lineNumber |-> newLine])
           /\ beginWord' = find_if_not(code, newEnd)
    /\ UNCHANGED <<entry, code, pc, nbLines, idx, wordCount, sortedWordCount, output>>

\* The loop ends and words is returned; getWordCount goes on to call
\* wordStats(words, numberOfLines(code)).
TokenizeReturn ==
    /\ pc = "scan"
    /\ beginWord = Len(code) + 1
    /\ IF entry = "getWordCount"
       THEN /\ pc' = "aggregate"
            /\ nbLines' = numberOfLines(code)
       ELSE /\ pc' = "done"
            /\ UNCHANGED nbLines
    /\ UNCHANGED <<entry, code, words, endWord, beginWord, line, idx, wordCount,
                   sortedWordCount, output>>

\* One iteration of the range-for of wordStats.
WordStatsIter ==
    /\ pc = "aggregate"
    /\ idx <= Len(words)
    /\ LET oneWordData == words[idx]
           oneWordStats == MapAt(wordCount, oneWordData.word)
           withTotal == setTotalNumberOfLines(oneWordStats, nbLines)
       IN  wordCount' = MapPut(wordCount, oneWordData.word,
                               addOneOccurrence(withTotal, oneWordData.lineNumber))
    /\ idx' = idx + 1
    /\ UNCHANGED <<entry, code, pc, words, endWord, beginWord, line, nbLines,
                   sortedWordCount, output>>

WordStatsReturn ==
    /\ pc = "aggregate"
    /\ idx > Len(words)
    /\ pc' = IF entry = "getWordCount" THEN "rank" ELSE "done"
    /\ UNCHANGED <<entry, code, words, endWord, beginWord, line, nbLines, idx,
                   wordCount, sortedWordCount, output>>

\* getWordCount copies the map into a vector, sorts it and returns it.
Rank ==
    /\ pc = "rank"
    /\ sortedWordCount' \in SortResults(MapToVector(wordCount))
    /\ pc' = "print"
    /\ UNCHANGED <<entry, code, words, endWord, beginWord, line, nbLines, idx,
                   wordCount, output>>

\* main hands the result to print.
PrintEntries ==
    /\ pc = "print"
    /\ output' = print(sortedWordCount)
    /\ pc' = "done"
    /\ UNCHANGED <<entry, code, words, endWord, beginWord, line, nbLines, idx,
                   wordCount, sortedWordCount>>

Next ==
    \/ TokenizeIter
    \/ TokenizeReturn
    \/ WordStatsIter
    \/ WordStatsReturn
    \/ Rank
    \/ PrintEntries

Spec == Init /\ [][Next]_vars

\* ============================================================ properties
\* The character classes as the specification words them, written without
\* the code's predicates.
RefNameChars == {"a", "B", "1", "_"}
RefIsDelimiter(c) == c \notin RefNameChars
RefIsUpper(c) == c = "B"
RefNoDelimiter(text) == \A i \in 1..Len(text) : ~RefIsDelimiter(text[i])
RefOnlyDelimiters(text) == \A i \in 1..Len(text) : RefIsDelimiter(text[i])
RefNewlinesBefore(text, pos) == Cardinality({i \in 1..(pos - 1) : text[i] = "\n"})

\* The pieces of text, as pairs <<first, last>>: the maximal runs of
\* non-delimiter characters, in camel-case mode cut before every upper-case
\* letter that is not the first character of its piece.
RefCut(text, camel, i) == camel /\ RefIsUpper(text[i])
RefPieces(text, camel) ==
    {p \in (1..Len(text)) \X (1..Len(text)) :
        /\ p[1] <= p[2]
        /\ \A k \in p[1]..p[2] : ~RefIsDelimiter(text[k])
        /\ \A k \in (p[1] + 1)..p[2] : ~RefCut(text, camel, k)
        /\ p[1] = 1 \/ RefIsDelimiter(text[p[1] - 1]) \/ RefCut(text, camel, p[1])
        /\ p[2] = Len(text) \/ RefIsDelimiter(text[p[2] + 1])
             \/ RefCut(text, camel, p[2] + 1)}
\* The k-th piece from the left.
RefPiece(text, camel, k) ==
    LET P == RefPieces(text, camel)
    IN  CHOOSE p \in P : Cardinality({q \in P : q[1] < p[1]}) = k - 1
RefWordsAre(text, camel, ws) ==
    /\ Len(ws) = Cardinality(RefPieces(text, camel))
    /\ \A k \in 1..Len(ws) :
          LET p == RefPiece(text, camel, k)
          IN  ws[k].word = SubSeq(text, p[1], p[2])

Tokenizing == entry \in {"getWordCount", "EntireWords"}
Tokenized == Tokenizing /\ pc # "scan"
Ranked == entry = "getWordCount" /\ pc \in {"print", "done"}

RECURSIVE SumOccurrences(_)
SumOccurrences(v) ==
    IF v = <<>> THEN 0 ELSE nbOccurrences(Head(v).second) + SumOccurrences(Tail(v))

\* C1: the sequence returned by getWordCount is ordered by occurrence count
\* descending, and adjacent entries with equal count are in ascending
\* lexicographic order of their words.
C1_RankedOrderWithTies ==
    Ranked =>
        \A i \in 1..(Len(sortedWordCount) - 1) :
            LET e1 == sortedWordCount[i]
                e2 == sortedWordCount[i + 1]
            IN  /\ nbOccurrences(e1.second) >= nbOccurrences(e2.second)
                /\ nbOccurrences(e1.second) = nbOccurrences(e2.second)
                      => ~StringLess(e2.first, e1.first)

\* C2: in WordsInCamelCase mode the tokenizer returns, in scan order, exactly
\* the maximal runs of non-delimiter characters cut before every upper-case
\* letter that is not the first of its piece; every word is non-empty, has no
\* delimiter and no upper-case letter after its first character.
C2_CamelCasePieces ==
    (entry = "getWordCount" /\ pc # "scan") =>
        /\ RefWordsAre(code, TRUE, words)
        /\ \A k \in 1..Len(words) :
              LET w == words[k].word
              IN  /\ w # <<>>
                  /\ \A i \in 1..Len(w) : ~RefIsDelimiter(w[i])
                  /\ \A i \in 2..Len(w) : ~RefIsUpper(w[i])

C2_Witness ==
    /\ entry = "getWordCount" /\ pc = "done"
    /\ \E k \in 1..(Len(words) - 2) :
          /\ Len(words[k].word) >= 2
          /\ RefIsUpper(words[k + 1].word[1])
          /\ RefIsUpper(words[k + 2].word[1])

\* C3: in EntireWords mode the tokenizer returns exactly one occurrence per
\* maximal run of non-delimiter characters, left to right, the run's text
\* being the word; no word is empty and leading delimiters give nothing.
C3_EntireWordsRuns ==
    (entry = "EntireWords" /\ pc # "scan") =>
        /\ RefWordsAre(code, FALSE, words)
        /\ \A k \in 1..Len(words) : words[k].word # <<>>

C3_Witness ==
    /\ entry = "EntireWords" /\ pc = "done"
    /\ Len(code) = 4
    /\ RefIsDelimiter(code[1])
    /\ RefIsDelimiter(code[4])
    /\ Len(words) = 1
    /\ \E i \in 1..Len(words[1].word) : words[1].word[i] = "_"
    /\ \E i \in 2..Len(words[1].word) : RefIsUpper(words[1].word[i])

\* C4: in both modes each occurrence's line number is the number of newline
\* characters of the text before the word's first character, and the line
\* numbers never decrease along the occurrence sequence.
C4_LineNumbers ==
    Tokenizing =>
        /\ Len(words) <= Cardinality(RefPieces(code, entry = "getWordCount"))
        /\ \A k \in 1..Len(words) :
              words[k].lineNumber =
                  RefNewlinesBefore(code, RefPiece(code, entry = "getWordCount", k)[1])
        /\ \A k \in 1..(Len(words) - 1) : words[k].lineNumber <= words[k + 1].lineNumber

C4_Witness ==
    /\ Tokenized
    /\ Len(words) = 2
    /\ words[1].lineNumber = 1
    /\ words[2].lineNumber = 2

\* C5: the occurrence counts of the ranked result of getWordCount add up to
\* the number of occurrences the tokenizer produced.
C5_CountsAddUp ==
    Ranked => SumOccurrences(sortedWordCount) = Len(words)

C5_Witness ==
    /\ Ranked
    /\ Len(sortedWordCount) = 2
    /\ Len(words) = 3

\* C6: for every word of the result of getWordCount, 1 <= span <= the
\* text's newline count plus one, and span = 1 when the word occurs once.
C6_SpanBounds ==
    Ranked =>
        \A i \in 1..Len(sortedWordCount) :
            LET ws == sortedWordCount[i].second
            IN  /\ 1 <= span(ws)
                /\ span(ws) <= RefNewlinesBefore(code, Len(code) + 1) + 1
                /\ ws.totalNumberOfLines_ = RefNewlinesBefore(code, Len(code) + 1) + 1
                /\ nbOccurrences(ws) = 1 => span(ws) = 1

C6_Witness ==
    /\ Ranked
    /\ \E i \in 1..Len(sortedWordCount) :
          /\ span(sortedWordCount[i].second) = 3
          /\ span(sortedWordCount[i].second) = sortedWordCount[i].second.totalNumberOfLines_

\* C7: wordStats gives each distinct word an entry whose count is the number
\* of its occurrences and whose lowest and highest line are the minimum and
\* maximum of their line numbers (so far, after every step of the loop), and
\* lowest <= highest holds after every addOneOccurrence.
C7_Aggregation ==
    LET seen == 1..(idx - 1)
        occ(w) == {k \in seen : words[k].word = w}
    IN  /\ DOMAIN wordCount = {words[k].word : k \in seen}
        /\ \A w \in DOMAIN wordCount :
              LET ws == wordCount[w]
              IN  /\ ws.nbOccurrences_ = Cardinality(occ(w))
                  /\ \E k \in occ(w) : ws.lowestOccurringLine_ = words[k].lineNumber
                  /\ \A k \in occ(w) : ws.lowestOccurringLine_ <= words[k].lineNumber
                  /\ \E k \in occ(w) : ws.highestOccurringLine_ = words[k].lineNumber
                  /\ \A k \in occ(w) : ws.highestOccurringLine_ >= words[k].lineNumber
                  /\ ws.lowestOccurringLine_ <= ws.highestOccurringLine_
                  /\ span(ws) >= 1

C7_Witness ==
    /\ entry = "wordStats" /\ pc = "done"
    /\ Len(words) = 3
    /\ \E w \in DOMAIN wordCount :
          /\ wordCount[w].nbOccurrences_ = 3
          /\ words[1].lineNumber = 1
          /\ wordCount[w].lowestOccurringLine_ = 0
          /\ wordCount[w].highestOccurringLine_ = 2

\* C8 as stated: for every non-empty text without a delimiter character the
\* tokenizer, in either mode, produces the whole text as one word at line 0.
C8_OneWordBothModes ==
    (Tokenized /\ code # <<>> /\ RefNoDelimiter(code)) =>
        words = <<[word |-> code, lineNumber |-> 0]>>

\* C8 amended: for every non-empty text without a delimiter character the
\* tokenizer produces the whole text as one word at line 0 in EntireWords
\* mode, and in WordsInCamelCase mode when no character after the first is
\* an upper-case letter.
C8_OneWordAmended ==
    (/\ Tokenized /\ code # <<>> /\ RefNoDelimiter(code)
     /\ entry = "getWordCount" => \A i \in 2..Len(code) : ~RefIsUpper(code[i])) =>
        words = <<[word |-> code, lineNumber |-> 0]>>

C8_Witness ==
    /\ entry = "getWordCount" /\ pc = "done"
    /\ Len(code) = 3
    /\ RefIsUpper(code[1])
    /\ words = <<[word |-> code, lineNumber |-> 0]>>

\* C9: for the empty text and for a text of delimiter characters only, the
\* run ends with an empty occurrence sequence, an empty statistics map and
\* an empty ranked sequence, print writes nothing, and the scan never leaves
\* the text.
C9_EmptyResult ==
    (Tokenizing /\ RefOnlyDelimiters(code)) =>
        /\ words = <<>>
        /\ wordCount = EmptyMap
        /\ sortedWordCount = <<>>
        /\ output = 0
        /\ beginWord = Len(code) + 1
        /\ pc \in {"scan", "aggregate", "rank", "print", "done"}

C9_Witness ==
    /\ entry = "getWordCount" /\ pc = "done"
    /\ Len(code) >= 2
    /\ RefOnlyDelimiters(code)
    /\ output = 0

\* C10: at each iteration of the scan loop beginWord is a position of the
\* text, endWord lands strictly after it, the next beginWord is at or after
\* endWord and within the text or at its end, and no more iterations are run
\* than the text has characters.
C10_ScanAdvances ==
    [][(pc = "scan" /\ beginWord # Len(code) + 1) =>
          /\ beginWord \in 1..Len(code)
          /\ endWord' > beginWord
          /\ endWord' <= Len(code) + 1
          /\ beginWord' >= endWord'
          /\ beginWord' <= Len(code) + 1
          /\ Len(words') = Len(words) + 1
          /\ Len(words') <= Len(code)]_vars

C10_Witness ==
    /\ Tokenized
    /\ Len(code) >= 3
    /\ Len(words) = Len(code)

====
